---- MODULE Spec2Model ----
(***************************************************************************)
(* Model of the Delaware bid scraper (src/scraper.py): the run of main,    *)
(* the category / page / row loops, the per-row detail acquisition, the    *)
(* dedup set processed_bid_ids, the Excel store and the SIGINT handler.    *)
(*                                                                         *)
(* The browser and the spreadsheet are the environment: every call on     *)
(* them either succeeds or raises, chosen by \E over small sets.  The     *)
(* remote grid is a fixed data set chosen at Init, so that two runs read   *)
(* the same rows.                                                          *)
(***************************************************************************)
EXTENDS Integers, Sequences, FiniteSets, TLC

VARIABLES
    data,           \* the remote grid: category index -> pages -> rows
    run,            \* number of the current process run (1..MaxRuns)
    pc,             \* position of the run inside main and its callees
    catIdx,         \* index into categories of the for loop of process_bid_categories
    page,           \* page of the grid currently displayed
    rows,           \* rows found by scrape_bids_from_table on the current page
    rowIdx,         \* index into rows of the for loop of scrape_bids_from_table
    modalOpen,      \* the detail dialog is displayed in the browser
    driverAlive,    \* the browser session exists (driver.quit not yet called)
    processed_bid_ids, \* the seen set of the run
    file,           \* the Excel store on disk
    quitCount,      \* calls of driver.quit in this run
    interrupts,     \* SIGINTs delivered in this run
    faults,         \* faults injected by the environment so far (all runs)
    appendCalls,    \* this run: key -> number of calls of append_to_excel
    runAppends,     \* this run: appends that wrote their record
    pageLog,        \* this page: outcome of every row processed so far
    catLog,         \* this run: categories whose tab selection was attempted, in order
    pagesDone,      \* this run: categories for which navigate_to_next_page returned False
    workAfterInt,   \* this run: loop steps begun after the handler ran
    fileAtRunStart, \* the store as the current run found it
    committed       \* records of the appends that completed successfully

vars == << data, run, pc, catIdx, page, rows, rowIdx, modalOpen, driverAlive,
           processed_bid_ids, file, quitCount, interrupts, faults, appendCalls,
           runAppends, pageLog, catLog, pagesDone, workAfterInt,
           fileAtRunStart, committed >>

----------------------------------------------------------------------------
(* Bounds of the model *)

MaxRuns == 3
MaxFaults == 3
MaxInterrupts == 2

(* Program constants *)

ExpectedCells == 7

categories == << "Open", "Recently Closed", "Not Awarded" >>

----------------------------------------------------------------------------
(* Values *)

\* The value get_attribute("title") returns when the attribute is absent.
None == "<None>"

Ids == {"A1", "A2", "A3", None}

\* str(bid_id): the key of the seen set.
Str(id) == IF id = None THEN "None" ELSE id

\* What df["Bid ID"].astype(str) yields for a stored identifier: a missing
\* value is written as an empty cell, read back as NaN and printed "nan".
StoredStr(id) == IF id = None THEN "nan" ELSE id

Keys == {Str(i) : i \in Ids} \cup {StoredStr(i) : i \in Ids}

R(id) == [id |-> id, cells |-> ExpectedCells]
Short(id) == [id |-> id, cells |-> ExpectedCells - 1]

\* Category Open with page 1 = A1, A2 and page 2 = A3; the other tabs are empty.
ExampleData ==
    << << << R("A1"), R("A2") >>, << R("A3") >> >>,
       << >>,
       << >> >>

\* An item listed under two categories, a row with too few cells, and rows
\* whose identifier attribute is absent.
MixedData ==
    << << << R("A1"), Short("A2") >>, << R(None) >> >>,
       << << R("A1"), R(None) >> >>,
       << << R("A2") >> >> >>

\* Every row has its 7 cells; one has no identifier attribute.
AbsentIdData ==
    << << << R(None), R("A1") >> >>,
       << << R("A2") >> >>,
       << << R("A3") >> >> >>

DataSets == {ExampleData, MixedData, AbsentIdData}

AbsentFile == [state |-> "absent", recs |-> << >>]
CorruptFile == [state |-> "corrupt", recs |-> << >>]

\* Records retrievable from the store.
ReadBack(f) == IF f.state = "valid" THEN f.recs ELSE << >>


----------------------------------------------------------------------------
(* The environment: what a call on the browser or on the store may do *)

\* A call on the browser: it raises once the session is gone, and may raise
\* (timeout, element missing) while the fault budget lasts.
DriverOutcomes ==
    IF ~driverAlive THEN {"raise"}
    ELSE IF faults < MaxFaults THEN {"ok", "raise"} ELSE {"ok"}

\* A write of the store: PermissionError ("denied") or another exception.
StoreOutcomes ==
    IF faults < MaxFaults THEN {"ok", "denied", "fault"} ELSE {"ok"}

Injected(o) == IF driverAlive /\ o = "raise" THEN faults + 1 ELSE faults

Running == pc \notin {"done", "exited", "failed"}

\* A loop step begun after the SIGINT handler ran is recorded.
Work(kind) == IF interrupts > 0 THEN workAfterInt \cup {kind} ELSE workAfterInt

----------------------------------------------------------------------------
(* Excel file handling *)

\* load_processed_bid_ids: the empty set when there is no file or the file
\* cannot be read, else the string forms of the stored identifiers.
load_processed_bid_ids(f, o) ==
    IF f.state = "absent" THEN {}
    ELSE IF f.state = "corrupt" \/ o # "ok" THEN {}
    ELSE {StoredStr(f.recs[i].BidID) : i \in 1..Len(f.recs)}

\* (mutant) the row is written above the rows already there.
WriteRow_First(recs, rec) == << rec >> \o recs

\* The row append_to_excel adds below the last row of the sheet (startrow =
\* sheet.max_row, line 118).
WriteRow(recs, rec) == Append(recs, rec)

\* The file after append_to_excel(rec) ended with outcome o.
\* No file yet: to_excel creates it; a refused open leaves no file, another
\* fault leaves the file it had begun.  Existing file: a row is added, or
\* the file is left as it was.
FileAfterAppend(f, rec, o) ==
    IF f.state = "absent"
    THEN CASE o = "ok" -> [state |-> "valid", recs |-> << rec >>]
           [] o = "denied" -> f
           [] OTHER -> CorruptFile
    ELSE IF f.state = "valid" /\ o = "ok"
         THEN [state |-> "valid", recs |-> WriteRow(f.recs, rec)]
         ELSE f

\* append_to_excel raises only on the path that creates the file (lines
\* 108-111 are outside the try of lines 113-122).
AppendRaises(f, o) == f.state = "absent" /\ o # "ok"

\* append_to_excel wrote the record.
AppendWrote(f, o) == f.state \in {"absent", "valid"} /\ o = "ok"

----------------------------------------------------------------------------
(* main *)

Init ==
    /\ data \in DataSets
    /\ run = 1
    /\ pc = "load"
    /\ catIdx = 1
    /\ page = 1
    /\ rows = << >>
    /\ rowIdx = 1
    /\ modalOpen = FALSE
    /\ driverAlive = TRUE
    /\ processed_bid_ids = {}
    /\ file = AbsentFile
    /\ quitCount = 0
    /\ interrupts = 0
    /\ faults = 0
    /\ appendCalls = [k \in Keys |-> 0]
    /\ runAppends = 0
    /\ pageLog = << >>
    /\ catLog = << >>
    /\ pagesDone = {}
    /\ workAfterInt = {}
    /\ fileAtRunStart = AbsentFile
    /\ committed = << >>

\* main, line 34: processed_bid_ids = load_processed_bid_ids(EXCEL_FILE)
LoadIds ==
    /\ pc = "load"
    /\ \E o \in (IF file.state = "valid" /\ faults < MaxFaults
                 THEN {"ok", "fault"} ELSE {"ok"}) :
         /\ processed_bid_ids' = load_processed_bid_ids(file, o)
         /\ faults' = IF o = "ok" THEN faults ELSE faults + 1
    /\ pc' = "navigate"
    /\ UNCHANGED << catLog, data, run, catIdx, page, rows, rowIdx, modalOpen,
                    driverAlive, file, quitCount, interrupts, appendCalls,
                    runAppends, pageLog, pagesDone, workAfterInt,
                    fileAtRunStart, committed >>

\* main, line 35: navigate_to_bids_page; an exception of driver.get leaves
\* main through the finally clause (lines 37-39).
Navigate ==
    /\ pc = "navigate"
    /\ \E o \in DriverOutcomes :
         /\ faults' = Injected(o)
         /\ IF o = "ok"
            THEN /\ pc' = "cat"
                 /\ catIdx' = 1
                 /\ UNCHANGED << quitCount, driverAlive >>
            ELSE /\ pc' = "failed"
                 /\ quitCount' = quitCount + 1
                 /\ driverAlive' = FALSE
                 /\ UNCHANGED catIdx
    /\ UNCHANGED << catLog, data, run, page, rows, rowIdx, modalOpen,
                    processed_bid_ids, file, interrupts, appendCalls,
                    runAppends, pageLog, pagesDone, workAfterInt,
                    fileAtRunStart, committed >>


----------------------------------------------------------------------------
(* process_bid_categories *)

\* (mutant) the exception of a category ends the for loop.
CategoryExceptIdx_Abort(c) == Len(categories) + 1

\* The except clause of lines 146-147: the for loop goes on with the next
\* category.
CategoryExceptIdx(c) == c + 1

\* Lines 140-147: select the tab of the next category; the wait or the
\* click may raise, which abandons the category.
SelectCategory ==
    /\ pc = "cat"
    /\ catIdx <= Len(categories)
    /\ \E o \in DriverOutcomes :
         /\ faults' = Injected(o)
         /\ IF o = "ok"
            THEN /\ pc' = "rows"
                 /\ page' = 1
                 /\ UNCHANGED catIdx
            ELSE /\ pc' = "cat"
                 /\ catIdx' = CategoryExceptIdx(catIdx)
                 /\ UNCHANGED page
    /\ workAfterInt' = Work("category")
    /\ catLog' = Append(catLog, catIdx)
    /\ UNCHANGED << data, run, rows, rowIdx, modalOpen, driverAlive,
                    processed_bid_ids, file, quitCount, interrupts,
                    appendCalls, runAppends, pageLog, pagesDone,
                    fileAtRunStart, committed >>

\* The for loop of line 140 is exhausted: process_bid_categories returns and
\* main runs its finally clause (lines 37-39).
CategoriesDone ==
    /\ pc = "cat"
    /\ catIdx > Len(categories)
    /\ pc' = "done"
    /\ quitCount' = quitCount + 1
    /\ driverAlive' = FALSE
    /\ UNCHANGED << catLog, data, run, catIdx, page, rows, rowIdx, modalOpen,
                    processed_bid_ids, file, interrupts, faults, appendCalls,
                    runAppends, pageLog, pagesDone, workAfterInt,
                    fileAtRunStart, committed >>

----------------------------------------------------------------------------
(* scrape_bids_from_table *)

\* The rows the grid shows for category c on page p (none past the last page).
GridRows(c, p) == IF p <= Len(data[c]) THEN data[c][p] ELSE << >>

\* Position after the for loop of line 157 has taken n rows of the page.
AfterRowPc(n) == IF n < Len(rows) THEN "row" ELSE "nextpage"

\* (mutant) the exception of a row ends the for loop.
RowExceptPc_Break(n) == "nextpage"

\* Lines 160-163: an exception of process_bid_row is logged and the for loop
\* continues with the next row.
RowExceptPc(n) == AfterRowPc(n)

\* Lines 154-155: wait for the table rows and read them.  The wait times out
\* when the table shows no row; any exception leaves scrape_bids_from_table
\* and is caught by process_bid_categories.
ReadRows ==
    /\ pc = "rows"
    /\ \E o \in DriverOutcomes :
         /\ faults' = Injected(o)
         /\ IF o = "ok" /\ GridRows(catIdx, page) # << >>
            THEN /\ rows' = GridRows(catIdx, page)
                 /\ rowIdx' = 1
                 /\ pageLog' = << >>
                 /\ pc' = "row"
                 /\ UNCHANGED catIdx
            ELSE /\ pc' = "cat"
                 /\ catIdx' = CategoryExceptIdx(catIdx)
                 /\ UNCHANGED << rows, rowIdx, pageLog >>
    /\ workAfterInt' = Work("page")
    /\ UNCHANGED << catLog, data, run, page, modalOpen, driverAlive,
                    processed_bid_ids, file, quitCount, interrupts,
                    appendCalls, runAppends, pagesDone, fileAtRunStart,
                    committed >>

\* navigate_to_next_page, lines 246-257: False when the lookup raises or the
\* button is disabled (last page), else click and True.
navigate_to_next_page(o) ==
    IF o # "ok" THEN FALSE
    ELSE page < Len(data[catIdx])

\* (mutant) the while loop has no break.
PageLoopPc_NoBreak(more) == "rows"

\* Lines 165-167: the while loop ends when navigate_to_next_page is False.
PageLoopPc(more) == IF more THEN "rows" ELSE "cat"

NextPage ==
    /\ pc = "nextpage"
    /\ \E o \in DriverOutcomes :
         LET more == navigate_to_next_page(o) IN
         /\ faults' = Injected(o)
         /\ pc' = PageLoopPc(more)
         /\ page' = IF more THEN page + 1 ELSE page
         /\ pagesDone' = IF more THEN pagesDone ELSE pagesDone \cup {catIdx}
         /\ catIdx' = IF pc' = "cat" THEN catIdx + 1 ELSE catIdx
    /\ workAfterInt' = Work("nextpage")
    /\ UNCHANGED << catLog, data, run, rows, rowIdx, modalOpen, driverAlive,
                    processed_bid_ids, file, quitCount, interrupts,
                    appendCalls, runAppends, pageLog, fileAtRunStart,
                    committed >>


----------------------------------------------------------------------------
(* process_bid_row *)

\* (mutant) the guard is off by one: a row of 6 cells passes.
Malformed_OffByOne(row) == row.cells < ExpectedCells - 1

\* Line 175: a row with fewer than 7 cells is skipped.
Malformed(row) == row.cells < ExpectedCells

\* (mutant) a row without identifier is never taken as already scraped.
AlreadyScraped_PresentOnly(id) == id # None /\ Str(id) \in processed_bid_ids

\* (mutant) the dedup check is made under the first category only.
AlreadyScraped_FirstCategory(id) == catIdx = 1 /\ Str(id) \in processed_bid_ids

\* (mutant) the dedup check never finds the identifier.
AlreadyScraped_Off(id) == FALSE

\* Line 179: the dedup check on the string form of the identifier.
AlreadyScraped(id) == Str(id) \in processed_bid_ids

\* Lines 184-193 and 208: the record of the row (the summary and detail
\* texts play no part in the control flow and are left out).
full_bid_data(row) == [Category |-> categories[catIdx], BidID |-> row.id]

\* (mutant) the identifier is marked as soon as the dedup check has passed.
SeenAfter_Early(id, result) ==
    IF result \in {"open_fault", "close_fault", "append_raised",
                   "appended", "append_failed"}
    THEN processed_bid_ids \cup {Str(id)} ELSE processed_bid_ids

\* The seen set when process_bid_row is left with the given result: line 210
\* is reached only when append_to_excel has returned.
SeenAfter(id, result) ==
    IF result \in {"appended", "append_failed"}
    THEN processed_bid_ids \cup {Str(id)} ELSE processed_bid_ids

LogEntry(row, result) ==
    [id |-> row.id, cells |-> row.cells,
     seenBefore |-> AlreadyScraped(row.id), result |-> result]

\* Lines 174-200: read the cells, skip a malformed or already scraped row,
\* else click the title link and wait for the dialog.  Any of these browser
\* calls may raise; the exception leaves process_bid_row.
RowOpen ==
    /\ pc = "row"
    /\ LET row == rows[rowIdx] IN
       \E o \in DriverOutcomes :
         /\ faults' = Injected(o)
         /\ IF o = "raise"
            THEN /\ pageLog' = Append(pageLog, LogEntry(row,
                        IF Malformed(row) \/ AlreadyScraped(row.id)
                        THEN "row_fault" ELSE "open_fault"))
                 /\ processed_bid_ids' = SeenAfter(row.id,
                        IF Malformed(row) \/ AlreadyScraped(row.id)
                        THEN "row_fault" ELSE "open_fault")
                 /\ rowIdx' = rowIdx + 1
                 /\ pc' = RowExceptPc(rowIdx)
                 /\ UNCHANGED modalOpen
            ELSE IF Malformed(row)
            THEN /\ pageLog' = Append(pageLog, LogEntry(row, "malformed"))
                 /\ processed_bid_ids' = SeenAfter(row.id, "malformed")
                 /\ rowIdx' = rowIdx + 1
                 /\ pc' = AfterRowPc(rowIdx)
                 /\ UNCHANGED modalOpen
            ELSE IF AlreadyScraped(row.id)
            THEN /\ pageLog' = Append(pageLog, LogEntry(row, "skipped"))
                 /\ processed_bid_ids' = SeenAfter(row.id, "skipped")
                 /\ rowIdx' = rowIdx + 1
                 /\ pc' = AfterRowPc(rowIdx)
                 /\ UNCHANGED modalOpen
            ELSE /\ modalOpen' = TRUE
                 /\ pc' = "modal"
                 /\ UNCHANGED << pageLog, rowIdx, processed_bid_ids >>
    /\ workAfterInt' = Work("row")
    /\ UNCHANGED << catLog, data, run, catIdx, page, rows, driverAlive,
                    file, quitCount, interrupts,
                    appendCalls, runAppends, pagesDone, fileAtRunStart,
                    committed >>

\* Line 201, extract_modal_data (lines 213-239): every lookup is guarded, a
\* failed one yields "N/A"; the function always returns.
ExtractModal ==
    /\ pc = "modal"
    /\ pc' = "close"
    /\ UNCHANGED << catLog, data, run, catIdx, page, rows, rowIdx, modalOpen,
                    driverAlive, processed_bid_ids, file, quitCount,
                    interrupts, faults, appendCalls, runAppends, pageLog,
                    pagesDone, workAfterInt, fileAtRunStart, committed >>

\* Lines 204-205: send Escape to close the dialog; an exception leaves
\* process_bid_row with the dialog still displayed.
CloseModal ==
    /\ pc = "close"
    /\ \E o \in DriverOutcomes :
         /\ faults' = Injected(o)
         /\ IF o = "ok"
            THEN /\ modalOpen' = FALSE
                 /\ pc' = "append"
                 /\ UNCHANGED << pageLog, rowIdx, processed_bid_ids >>
            ELSE /\ pageLog' = Append(pageLog,
                                      LogEntry(rows[rowIdx], "close_fault"))
                 /\ processed_bid_ids' =
                        SeenAfter(rows[rowIdx].id, "close_fault")
                 /\ rowIdx' = rowIdx + 1
                 /\ pc' = RowExceptPc(rowIdx)
                 /\ UNCHANGED modalOpen
    /\ UNCHANGED << catLog, data, run, catIdx, page, rows, driverAlive,
                    file, quitCount, interrupts,
                    appendCalls, runAppends, pagesDone, workAfterInt,
                    fileAtRunStart, committed >>

\* Line 209: append_to_excel is entered (lines 107-108, before the file is
\* written).
AppendBegin ==
    /\ pc = "append"
    /\ pc' = "writing"
    /\ appendCalls' = [appendCalls EXCEPT ![Str(rows[rowIdx].id)] = @ + 1]
    /\ workAfterInt' = Work("append")
    /\ UNCHANGED << catLog, data, run, catIdx, page, rows, rowIdx, modalOpen,
                    driverAlive, processed_bid_ids, file, quitCount,
                    interrupts, faults, runAppends, pageLog, pagesDone,
                    fileAtRunStart, committed >>

\* Lines 109-122 then 210-211: the file is written or the write fails.  On
\* the append path the exception is logged inside append_to_excel, which
\* returns, and line 210 adds the identifier to the seen set; on the create
\* path the exception leaves process_bid_row before line 210.
AppendEnd ==
    /\ pc = "writing"
    /\ LET row == rows[rowIdx]
           rec == full_bid_data(row)
       IN
       \E o \in (IF file.state = "corrupt" THEN {"fault"} ELSE StoreOutcomes) :
         /\ faults' = IF file.state # "corrupt" /\ o # "ok"
                      THEN faults + 1 ELSE faults
         /\ file' = FileAfterAppend(file, rec, o)
         /\ committed' = IF AppendWrote(file, o)
                         THEN Append(committed, rec) ELSE committed
         /\ runAppends' = IF AppendWrote(file, o)
                          THEN runAppends + 1 ELSE runAppends
         /\ rowIdx' = rowIdx + 1
         /\ IF AppendRaises(file, o)
            THEN /\ pageLog' = Append(pageLog, LogEntry(row, "append_raised"))
                 /\ pc' = RowExceptPc(rowIdx)
                 /\ processed_bid_ids' = SeenAfter(row.id, "append_raised")
            ELSE /\ pageLog' = Append(pageLog, LogEntry(row,
                        IF AppendWrote(file, o)
                        THEN "appended" ELSE "append_failed"))
                 /\ pc' = AfterRowPc(rowIdx)
                 /\ processed_bid_ids' = SeenAfter(row.id,
                        IF AppendWrote(file, o)
                        THEN "appended" ELSE "append_failed")
    /\ UNCHANGED << catLog, data, run, catIdx, page, rows, modalOpen, driverAlive,
                    quitCount, interrupts, appendCalls, pagesDone,
                    workAfterInt, fileAtRunStart >>

----------------------------------------------------------------------------
(* setup_interrupt_handler *)

\* The file a write leaves behind when the process is stopped inside it:
\* untouched, or cut short and unreadable.
InterruptedWrite(f) == {f, CorruptFile}

\* handle_interrupt, lines 71-75: driver.quit() then sys.exit(), which raises
\* SystemExit at the point the signal arrived.  Inside get_text the bare
\* except of lines 219-222 catches it and the run goes on; anywhere else it
\* unwinds main, whose finally clause calls driver.quit() again.
Interrupt ==
    /\ Running
    /\ interrupts < MaxInterrupts
    /\ faults < MaxFaults
    /\ interrupts' = interrupts + 1
    /\ faults' = faults + 1
    /\ driverAlive' = FALSE
    /\ \/ /\ pc = "modal"
          /\ quitCount' = quitCount + 1
          /\ UNCHANGED << pc, file >>
       \/ /\ pc' = "exited"
          /\ quitCount' = quitCount + 2
          /\ file' \in (IF pc = "writing"
                        THEN InterruptedWrite(file) ELSE {file})
    /\ UNCHANGED << catLog, data, run, catIdx, page, rows, rowIdx, modalOpen,
                    processed_bid_ids, appendCalls, runAppends, pageLog,
                    pagesDone, workAfterInt, fileAtRunStart, committed >>

\* The script is started again on the store the previous run left.
StartRun ==
    /\ ~Running
    /\ run < MaxRuns
    /\ run' = run + 1
    /\ pc' = "load"
    /\ catIdx' = 1
    /\ page' = 1
    /\ rows' = << >>
    /\ rowIdx' = 1
    /\ modalOpen' = FALSE
    /\ driverAlive' = TRUE
    /\ processed_bid_ids' = {}
    /\ quitCount' = 0
    /\ interrupts' = 0
    /\ appendCalls' = [k \in Keys |-> 0]
    /\ runAppends' = 0
    /\ pageLog' = << >>
    /\ catLog' = << >>
    /\ pagesDone' = {}
    /\ workAfterInt' = {}
    /\ fileAtRunStart' = file
    /\ UNCHANGED << data, file, faults, committed >>

Next ==
    \/ LoadIds
    \/ Navigate
    \/ SelectCategory
    \/ CategoriesDone
    \/ ReadRows
    \/ RowOpen
    \/ ExtractModal
    \/ CloseModal
    \/ AppendBegin
    \/ AppendEnd
    \/ NextPage
    \/ Interrupt
    \/ StartRun

Spec == Init /\ [][Next]_vars

\* The steps of the script itself.  Every browser call is either immediate
\* or a WebDriverWait with a timeout (lines 137, 243) or a sleep, and every
\* file call returns or raises, so a step that can be taken is taken.  The
\* SIGINT and the restart of the script are up to the operator.
Step ==
    \/ LoadIds
    \/ Navigate
    \/ SelectCategory
    \/ CategoriesDone
    \/ ReadRows
    \/ RowOpen
    \/ ExtractModal
    \/ CloseModal
    \/ AppendBegin
    \/ AppendEnd
    \/ NextPage

LiveSpec == Init /\ [][Next]_vars /\ WF_vars(Step)


----------------------------------------------------------------------------
(* Properties *)

Range(s) == {s[i] : i \in 1..Len(s)}

Last(s) == s[Len(s)]

InRowLoop == pc \in {"row", "modal", "close", "append", "writing"}

FaultResults ==
    {"row_fault", "open_fault", "close_fault", "append_failed", "append_raised"}

AllWellFormed ==
    \A c \in 1..Len(data) : \A p \in 1..Len(data[c]) :
        \A i \in 1..Len(data[c][p]) : ~Malformed(data[c][p][i])

\* C1: an identifier enters the seen set only if the append of its record
\* succeeded: after a row whose append failed, the identifier of that row is
\* not in processed_bid_ids.
C1_SeenOnlyIfAppended ==
    (pc \in {"row", "nextpage"} /\ pageLog # << >>
       /\ Last(pageLog).result \in {"append_failed", "append_raised"})
    => Str(Last(pageLog).id) \notin processed_bid_ids

\* C2: dedup idempotence: a run that completes without any failure, started
\* on the store left by an earlier complete and failure-free run over the
\* same data set of well-formed rows, appends no record and leaves the store
\* as it found it.
C2_DedupIdempotence ==
    (AllWellFormed /\ run >= 2 /\ pc = "done" /\ faults = 0)
    => (runAppends = 0 /\ file = fileAtRunStart)

\* C3: within one run append_to_excel is invoked at most once per
\* identifier, whichever row-level failures occur.
C3_AppendAtMostOncePerId == \A k \in Keys : appendCalls[k] <= 1


\* C4: per-row isolation: whatever fault a row of the page raises, the rows
\* of the page are all processed in turn (the loop never leaves the page
\* early), and every row processed that has its 7 cells, was not seen
\* before and met no fault has its record, tagged with the current
\* category, in the store.
C4_PerRowIsolation ==
    /\ InRowLoop => (rowIdx <= Len(rows) /\ Len(pageLog) = rowIdx - 1)
    /\ pc = "nextpage" => Len(pageLog) = Len(rows)
    /\ (InRowLoop \/ pc = "nextpage") =>
         \A i \in 1..Len(pageLog) :
            ( /\ pageLog[i].cells >= ExpectedCells
              /\ ~pageLog[i].seenBefore
              /\ pageLog[i].result \notin FaultResults )
            => /\ pageLog[i].result = "appended"
               /\ file.state = "valid"
               /\ [Category |-> categories[catIdx], BidID |-> pageLog[i].id]
                     \in Range(file.recs)

\* A page is finished on which the detail view of one row failed to open and
\* a later row was appended.
C4_Witness ==
    /\ pc = "nextpage"
    /\ \E i, j \in 1..Len(pageLog) :
         /\ i < j
         /\ pageLog[i].result = "open_fault"
         /\ pageLog[j].result = "appended"

\* C5: once the SIGINT handler has run, the run begins no further row, page
\* read, page turn, category selection or append.
C5_NoWorkAfterInterrupt == interrupts > 0 => workAfterInt = {}

\* C6: when the process has ended, driver.quit has been called exactly once.
C6_ReleasedExactlyOnce == ~Running => quitCount = 1

\* C7: append durability: at every point, also after an interrupt, the
\* records that can be read back from the store are exactly those of the
\* appends that completed successfully.
C7_AppendDurability == ReadBack(file) = committed

\* C8: no store fault leaves append_to_excel: no row ends with an exception
\* raised by the append.
C8_AppendNeverRaises ==
    \A i \in 1..Len(pageLog) : pageLog[i].result # "append_raised"

\* C9: pagination termination: once navigate_to_next_page has returned False
\* for a category, the run is past that category: its table is not read
\* again and no page turn is attempted for it.
C9_PaginationTermination ==
    \A c \in pagesDone : catIdx > c

\* navigate_to_next_page returned False for the first category and the rows
\* of a later category are being processed.
C9_Witness == 1 \in pagesDone /\ catIdx = 2 /\ pc = "row"


RECURSIVE Concat(_)
Concat(ss) == IF ss = << >> THEN << >> ELSE Head(ss) \o Concat(Tail(ss))

\* s is t with some elements left out, order kept.
RECURSIVE IsSubSeq(_, _)
IsSubSeq(s, t) ==
    IF s = << >> THEN TRUE
    ELSE IF t = << >> THEN FALSE
    ELSE IF Head(s) = Head(t) THEN IsSubSeq(Tail(s), Tail(t))
    ELSE IsSubSeq(s, Tail(t))

\* The records of all rows of the grid in traversal order: categories in
\* configured order, pages in pagination order, rows in page order.
Traversal ==
    Concat([c \in 1..Len(data) |->
              LET rs == Concat(data[c]) IN
              [i \in 1..Len(rs) |->
                  [Category |-> categories[c], BidID |-> rs[i].id]]])

ExampleStore ==
    << [Category |-> "Open", BidID |-> "A1"],
       [Category |-> "Open", BidID |-> "A2"],
       [Category |-> "Open", BidID |-> "A3"] >>

\* C10: ordering: the store of a run is the store it found followed by the
\* records the run appended, and these are in traversal order, each tagged
\* with the category under which its row was read; on the example grid
\* (Open: page 1 = A1, A2, page 2 = A3) a failure-free first run leaves
\* exactly A1, A2, A3 tagged Open.
C10_Ordering ==
    /\ file.state = "valid" =>
         LET base == Len(ReadBack(fileAtRunStart)) IN
         /\ Len(file.recs) >= base
         /\ SubSeq(file.recs, 1, base) = ReadBack(fileAtRunStart)
         /\ IsSubSeq(SubSeq(file.recs, base + 1, Len(file.recs)), Traversal)
    /\ (data = ExampleData /\ run = 1 /\ pc = "done" /\ faults = 0)
         => file = [state |-> "valid", recs |-> ExampleStore]

\* The first run over the example grid has finished without failure and the
\* store holds the three records.
C10_Witness ==
    /\ data = ExampleData
    /\ run = 1
    /\ pc = "done"
    /\ faults = 0
    /\ ReadBack(file) = ExampleStore

\* C11: malformed-row skip: a step taken while the row loop stands at a row
\* with fewer than 7 cells opens no detail view, writes no record and leaves
\* the store and the seen set unchanged.
C11_MalformedRowSkip ==
    [][ (pc = "row" /\ rows[rowIdx].cells < ExpectedCells)
        => /\ file' = file
           /\ committed' = committed
           /\ processed_bid_ids' = processed_bid_ids
           /\ appendCalls' = appendCalls
           /\ modalOpen' = modalOpen
           /\ pc' \in {"row", "nextpage", "exited"} ]_vars

\* A row with too few cells has just been skipped.
C11_Witness ==
    /\ pc \in {"row", "nextpage"}
    /\ pageLog # << >>
    /\ Last(pageLog).cells < ExpectedCells
    /\ Last(pageLog).result = "malformed"

\* C12: recovery close: no row is started while the detail dialog of an
\* earlier row, whose processing failed after the dialog had opened, is
\* still displayed.
C12_RecoveryClose == [][ RowOpen => ~modalOpen ]_vars

\* C13: category-scoped failure: a failure of the tab selection or of the
\* wait for the table rows abandons only the current category: the loop
\* moves to the next configured category with the store and the seen set
\* untouched, and a run that ends normally has selected every configured
\* category, in order.
C13_CategoryScopedFailure ==
    /\ [](pc = "done" => catLog = [i \in 1..Len(categories) |-> i])
    /\ [][ (pc \in {"cat", "rows"} /\ pc' = "cat" /\ catIdx <= Len(categories))
           => /\ catIdx' = catIdx + 1
              /\ file' = file
              /\ committed' = committed
              /\ processed_bid_ids' = processed_bid_ids ]_vars

\* A later category is being processed after the first one was abandoned
\* on a failure that followed an append.
C13_Witness ==
    /\ pc = "row"
    /\ catIdx = 2
    /\ 1 \notin pagesDone
    /\ runAppends >= 1
    /\ file.state = "valid"
    /\ processed_bid_ids # {}

\* C14: when opening the detail dialog of a row fails, nothing is appended
\* for the row and its identifier is not marked: the store and the seen set
\* are as they were before the row was started.
C14_OpenFailureNoEffect ==
    [][ (/\ Len(pageLog') = Len(pageLog) + 1
         /\ pageLog'[Len(pageLog')].result = "open_fault")
        => /\ file' = file
           /\ committed' = committed
           /\ appendCalls' = appendCalls
           /\ processed_bid_ids' = processed_bid_ids
           /\ Str(pageLog'[Len(pageLog')].id) \notin processed_bid_ids' ]_vars

\* The last row taken is a new, well-formed row whose dialog failed to open.
C14_Witness ==
    /\ pageLog # << >>
    /\ Last(pageLog).result = "open_fault"
    /\ Last(pageLog).cells >= ExpectedCells
    /\ ~Last(pageLog).seenBefore
    /\ pc \in {"row", "nextpage"}

\* C15: dedup short-circuit: a row with enough cells whose identifier is
\* already in the seen set is left without opening the dialog, without the
\* close gesture and without a call of append_to_excel; the dialog state,
\* the store and the seen set are unchanged by the row.
C15_DedupShortCircuit ==
    [][ (/\ pc = "row"
         /\ rows[rowIdx].cells >= ExpectedCells
         /\ Str(rows[rowIdx].id) \in processed_bid_ids)
        => /\ modalOpen' = modalOpen
           /\ file' = file
           /\ committed' = committed
           /\ appendCalls' = appendCalls
           /\ processed_bid_ids' = processed_bid_ids
           /\ pc' \in {"row", "nextpage", "exited"} ]_vars

\* The last row taken carried an identifier of the seen set and was skipped.
C15_Witness ==
    /\ pageLog # << >>
    /\ Last(pageLog).result = "skipped"
    /\ Last(pageLog).seenBefore
    /\ Last(pageLog).id # None
    /\ Str(Last(pageLog).id) \in processed_bid_ids

\* C16: load_processed_bid_ids always returns to main: the empty set when
\* there is no store file or the store cannot be read, and otherwise
\* exactly the identifiers under which the stored records were scraped.
C16_LoadSeenIdentifiers ==
    pc = "navigate"
    => /\ (file.state # "valid" => processed_bid_ids = {})
       /\ \/ processed_bid_ids = {}
          \/ processed_bid_ids =
                {Str(file.recs[i].BidID) : i \in 1..Len(file.recs)}

\* C17: run termination: once category processing has begun, the run
\* reaches the end of main with every configured category selected, unless
\* a SIGINT ends it first, whatever row, page or category failures occur.
C17_RunTermination ==
    (pc = "cat" /\ catIdx = 1)
        ~> \/ pc = "done" /\ catLog = [i \in 1..Len(categories) |-> i]
           \/ pc = "exited"

\* A run without a SIGINT ended normally after at least one failure, with
\* records appended on the way.
C17_Witness ==
    /\ pc = "done"
    /\ interrupts = 0
    /\ faults > 0
    /\ runAppends >= 1
    /\ catLog = [i \in 1..Len(categories) |-> i]

\* C18: store uniqueness across runs: whatever runs came before, no two
\* records of the store carry the same (present) identifier.
C18_StoreUniqueness ==
    \A i, j \in 1..Len(ReadBack(file)) :
        (/\ i # j
         /\ ReadBack(file)[i].BidID # None)
        => ReadBack(file)[i].BidID # ReadBack(file)[j].BidID

\* The records the current run has written to the store, in order.
RunRecords ==
    SubSeq(committed, Len(committed) - runAppends + 1, Len(committed))

\* C19: first category wins: within a run an identifier listed under
\* several categories gets one record only, written under the first
\* category whose row reached the append; a later row of an identifier the
\* run has already written is left by the dedup check.
C19_FirstCategoryWins ==
    /\ \A i, j \in 1..Len(RunRecords) :
          i # j => RunRecords[i].BidID # RunRecords[j].BidID
    /\ (InRowLoop \/ pc = "nextpage")
       => \A k \in 1..Len(pageLog) :
             (/\ pageLog[k].cells >= ExpectedCells
              /\ \E i \in 1..Len(RunRecords) :
                    /\ RunRecords[i].BidID = pageLog[k].id
                    /\ RunRecords[i].Category # categories[catIdx])
             => pageLog[k].result \in {"skipped", "row_fault"}

\* A1 was stored under the first category and its row under the second
\* category has just been skipped.
C19_Witness ==
    /\ catIdx = 2
    /\ pageLog # << >>
    /\ Last(pageLog).id = "A1"
    /\ Last(pageLog).result = "skipped"
    /\ \E i \in 1..Len(RunRecords) :
          RunRecords[i] = [Category |-> categories[1], BidID |-> "A1"]
    /\ \A i \in 1..Len(ReadBack(file)) :
          ReadBack(file)[i].BidID = "A1"
             => ReadBack(file)[i].Category = categories[1]

\* C20: absent identifier: a row with enough cells and no identifier
\* attribute is not skipped as malformed; it is keyed by the string form of
\* the missing value, so a run writes at most one such record and marks
\* that key, and every later row without identifier is left as a duplicate.
C20_AbsentIdentifier ==
    /\ [](/\ \A k \in 1..Len(pageLog) :
                (pageLog[k].id = None /\ pageLog[k].cells >= ExpectedCells)
                => pageLog[k].result # "malformed"
          /\ \A i, j \in 1..Len(RunRecords) :
                (RunRecords[i].BidID = None /\ RunRecords[j].BidID = None)
                => i = j
          /\ (\E i \in 1..Len(RunRecords) : RunRecords[i].BidID = None)
                => "None" \in processed_bid_ids)
    /\ [][ (/\ pc = "row"
            /\ rows[rowIdx].id = None
            /\ rows[rowIdx].cells >= ExpectedCells
            /\ "None" \in processed_bid_ids)
           => /\ pc' \in {"row", "nextpage", "exited"}
              /\ file' = file
              /\ processed_bid_ids' = processed_bid_ids ]_vars

\* The run has written the record of a row without identifier and has just
\* skipped another such row.
C20_Witness ==
    /\ pageLog # << >>
    /\ Last(pageLog).id = None
    /\ Last(pageLog).cells >= ExpectedCells
    /\ Last(pageLog).result = "skipped"
    /\ \E i \in 1..Len(RunRecords) : RunRecords[i].BidID = None

====
